---- MODULE Spec2Model ----
(***************************************************************************)
(* Model of NoSQLTasks (src/mutex.py): a client-side mutex manager built   *)
(* on conditional writes against a remote key-value table.                 *)
(*                                                                         *)
(* Several clients, each with its own NoSQLTasks instance, share one       *)
(* table.  Every call to the store (get_row, update_row, query) is one     *)
(* atomic step, together with the local code around it.  Time is a global  *)
(* clock in model ticks; the lease timeout (self._timeout), the scanner    *)
(* refresh and the acquire deadline are all expressed in ticks.            *)
(*                                                                         *)
(* A read returns the rows as they are when it is made.  What a client     *)
(* read is stale by the time it is used: other clients write between a     *)
(* scan, the get_row that follows it and the conditional write, and the    *)
(* generator hands out keys of a scan made up to Refresh earlier.          *)
(*                                                                         *)
(* A call to the store may fail instead: the exception ends the public     *)
(* call it was made for.                                                   *)
(***************************************************************************)
EXTENDS Integers, FiniteSets, Sequences, TLC

\* ---------------------------------------------------------------- bounds
MaxTime == 5            \* the clock stops ticking here
MaxCalls == 4           \* public calls made in one run

\* ------------------------------------------------------ program constants
\* One tick stands for 60 s: the default lease timeout and the scanner's
\* refresh are both 60 s in the source.
Timeout == 1            \* self._timeout (timeout_seconds=60)
Refresh == 1            \* refresh=60 passed by acquire
Unattended == 0         \* score of a row never acquired
Released == 1           \* score written by release
Deleted == -1           \* score written by delete

\* The clock starts where wall-clock time is: above Timeout + Released, so that
\* a released row is always older than the lease timeout.
StartTime == Timeout + Released + 1

\* ------------------------------------------------------------ value sets
NONE == "<None>"                      \* Python None (argument not supplied)
Clients == {"c1", "c2"}
Keys == {"a", "None"}                 \* lock ids; "None" is an ordinary string
AcquireTimeouts == {0, 1}             \* acquire(timeout=...), 0 = unbounded
LockIdArgs == {NONE, "a"}             \* acquire(lock_id=...)

\* self._owner of each manager instance (constructor argument owner)
DefaultOwner(c) == IF c = "c1" THEN "c1" ELSE NONE

\* The body argument each client passes to its calls: c1 supplies a body,
\* c2 supplies none.
BodyArgs(c) == IF c = "c1" THEN {"B"} ELSE {NONE}

\* A row that does not exist: version 0 is never handed out by the store.
Absent == [score |-> 0, owner |-> NONE, body |-> NONE, version |-> 0]
Present(row) == row.version > 0

\* The value returned for Python None where a handle is expected.
NoHandle == [key |-> NONE, version |-> 0, body |-> NONE]
Handle(k, v, b) == [key |-> k, version |-> v, body |-> b]

\* The outcome of a call that an exception of the store client ended.
Raised == [key |-> "<error>", version |-> 0, body |-> NONE]

VARIABLES
    now,          \* wall clock, datetime.now()
    table,        \* the rows of the table
    nextVersion,  \* the next version token the store assigns
    pc,           \* per client: position inside its current call
    call,         \* per client: the current (or last) public call and its result
    gen,          \* per client: state of the _stale_generator of its acquire
    cold,         \* per client: locals of _instant_acquire_one on the cold path
    accepts,      \* history: per version token, accepted conditional updates
    calls         \* history: public calls started so far

vars == <<now, table, nextVersion, pc, call, gen, cold, accepts, calls>>

\* ------------------------------------------------------------- the store

\* update_row(option="IF_ABSENT"): creation succeeds only if the row is absent.
PutAlways(tbl, k, row) == [tbl EXCEPT ![k] = row]
PutIfAbsent(tbl, k, row) ==
    IF Present(tbl[k]) THEN tbl ELSE [tbl EXCEPT ![k] = row]

\* if_match=etag of update_row: the write carries the caller's version token.
IfMatchAny(row, etag) == TRUE
IfMatch(row, etag) == row.version = etag

\* update_row(option="IF_PRESENT", if_match=etag): accepted only on a present
\* row whose version is etag.
AcceptedIfPresent(tbl, k, etag) == Present(tbl[k])
Accepted(tbl, k, etag) == Present(tbl[k]) /\ IfMatch(tbl[k], etag)

\* The row after an accepted partial update with
\* value = {key, owner?, body?, score}: fields not supplied keep their value.
Merge(row, owner, body, score, ver) ==
    [score   |-> score,
     owner   |-> IF owner = NONE THEN row.owner ELSE owner,
     body    |-> IF body = NONE THEN row.body ELSE body,
     version |-> ver]

\* No call to the store is inside a try block: what the client raises
\* (a failed get_row, update_row or query) leaves every frame up to the caller.
CaughtAsNone(err) == NoHandle
Uncaught(err) == err

\* ------------------------------------------------------------ _get_stale

\* The key clause of the query: the source appends ' AND key = "<mask>"' when
\* lock_id_mask IS None (None is formatted as "None") and nothing otherwise.
KeyClause(lock_id_mask, k) ==
    IF lock_id_mask = NONE THEN k = "None" ELSE TRUE

ScanStart(include_unattended) == IF include_unattended THEN 0 ELSE 1
ScanEnd(include_expired, t) == IF ~include_expired THEN 1 ELSE t - Timeout

\* score >= {start} AND score < {end}
ScoreInRangeInclusive(score, start, end) == score >= start /\ score <= end
ScoreInRange(score, start, end) == score >= start /\ score < end

GetStale(tbl, t, include_unattended, include_expired, lock_id_mask) ==
    IF ~(include_unattended \/ include_expired) THEN {}
    ELSE {k \in Keys :
            /\ Present(tbl[k])
            /\ ScoreInRange(tbl[k].score, ScanStart(include_unattended),
                            ScanEnd(include_expired, t))
            /\ KeyClause(lock_id_mask, k)}

\* -------------------------------------------------- _instant_acquire_one

\* "if old_score > score - self._timeout: return None"
LeaseLiveNoTimeout(old_score, score) == old_score > score
LeaseLiveNever(old_score, score) == FALSE
LeaseLive(old_score, score) == old_score > score - Timeout

\* ------------------------------------------------------------------ Init

\* at: what the row named by lock_id was when an acquire started;
\* quiet: no other client has made a call since this acquire started.
NoCall == [op |-> "none", lock_id |-> NONE, owner |-> NONE, body |-> NONE,
           timeout |-> 0, start |-> 0, etag |-> 0, res |-> NoHandle,
           at |-> "-", quiet |-> TRUE]
\* round: parity of the empty scans the generator has made in a row.
NoGen == [rem |-> {}, it |-> 0, live |-> FALSE, round |-> 0]
NoCold == [cand |-> NONE, etag |-> 0, score |-> 0, body |-> NONE]

Init ==
    /\ now = StartTime
    /\ table = [k \in Keys |-> Absent]
    /\ nextVersion = 1
    /\ pc = [c \in Clients |-> "idle"]
    /\ call = [c \in Clients |-> NoCall]
    /\ gen = [c \in Clients |-> NoGen]
    /\ cold = [c \in Clients |-> NoCold]
    /\ accepts = [v \in 1..MaxCalls |-> 0]
    /\ calls = 0

\* --------------------------------------------------------------- actions

Tick ==
    /\ now < MaxTime
    /\ now' = now + 1
    /\ UNCHANGED <<table, nextVersion, pc, call, gen, cold, accepts, calls>>

\* A public call by client c: the record of c's call is replaced, and every
\* other client's call in progress is no longer alone.
Called(c, rec) ==
    [d \in Clients |->
        IF d = c THEN rec
        ELSE IF pc[d] # "idle" THEN [call[d] EXCEPT !.quiet = FALSE]
        ELSE call[d]]

\* "score = 0 if not auto_acquire else int(datetime.now().timestamp() * 1000000)"
CreateScoreUnattended(auto_acquire, t) == Unattended
CreateScore(auto_acquire, t) == IF ~auto_acquire THEN Unattended ELSE t

\* create(lock_id, owner, body, auto_acquire)
Create(c, lock_id, owner, body, auto_acquire) ==
    /\ pc[c] = "idle"
    /\ calls < MaxCalls
    /\ calls' = calls + 1
    /\ LET score == CreateScore(auto_acquire, now)
           row == [score |-> score, owner |-> owner, body |-> body,
                   version |-> nextVersion]
           tbl == PutIfAbsent(table, lock_id, row)
           \* res.data.version is None unless the row was written
           ok == tbl[lock_id].version = nextVersion
       IN /\ table' = tbl
          /\ nextVersion' = IF ok THEN nextVersion + 1 ELSE nextVersion
          /\ call' = Called(c, [NoCall EXCEPT
                        !.op = "create", !.lock_id = lock_id, !.owner = owner,
                        !.body = body,
                        !.res = IF ok THEN Handle(lock_id, nextVersion, body)
                                ELSE NoHandle])
    /\ UNCHANGED <<now, pc, gen, cold, accepts>>

\* The conditional write of _instant_acquire_one and what it returns: tbl is
\* the table after the write, res the handle or NoHandle.  valueBody is the
\* body put in value, retBody the body put in the returned tuple.
InstantAcquireWriteEtagBack(k, etag, score, owner, valueBody, retBody) ==
    LET ok == Accepted(table, k, etag)
    IN [ok  |-> ok,
        tbl |-> IF ok THEN [table EXCEPT ![k] =
                              Merge(table[k], owner, valueBody, score, nextVersion)]
                ELSE table,
        res |-> IF ok THEN Handle(k, etag, retBody) ELSE NoHandle]
InstantAcquireWrite(k, etag, score, owner, valueBody, retBody) ==
    LET ok == Accepted(table, k, etag)
    IN [ok  |-> ok,
        tbl |-> IF ok THEN [table EXCEPT ![k] =
                              Merge(table[k], owner, valueBody, score, nextVersion)]
                ELSE table,
        res |-> IF ok THEN Handle(k, nextVersion, retBody) ELSE NoHandle]

CountAccept(etag, ok) ==
    IF ok THEN [accepts EXCEPT ![etag] = IF @ < 2 THEN @ + 1 ELSE @] ELSE accepts

\* update / release / delete: _instant_acquire_one with the handle's etag and
\* score None (stamped now), 1 or -1.
WithEtag(c, op, lock, owner, body, score) ==
    /\ pc[c] = "idle"
    /\ calls < MaxCalls
    /\ calls' = calls + 1
    /\ LET o == IF owner = NONE THEN DefaultOwner(c) ELSE owner
           w == InstantAcquireWrite(lock[1], lock[2], score, o, body, body)
       IN /\ table' = w.tbl
          /\ nextVersion' = IF w.ok THEN nextVersion + 1 ELSE nextVersion
          /\ accepts' = CountAccept(lock[2], w.ok)
          /\ call' = Called(c, [NoCall EXCEPT
                        !.op = op, !.lock_id = lock[1], !.owner = o,
                        !.body = body, !.etag = lock[2], !.res = w.res])
    /\ UNCHANGED <<now, pc, gen, cold>>

UpdateKeepsScore(c, lock, owner, body) ==
    WithEtag(c, "update", lock, owner, body, table[lock[1]].score)
Update(c, lock, owner, body) == WithEtag(c, "update", lock, owner, body, now)
Release(c, lock, owner, body) == WithEtag(c, "release", lock, owner, body, Released)
Delete(c, lock, owner, body) == WithEtag(c, "delete", lock, owner, body, Deleted)

\* What the row named by lock_id is when an acquire starts.
RowAt(lock_id) ==
    IF lock_id = NONE \/ ~Present(table[lock_id]) THEN "-"
    ELSE IF table[lock_id].score = Deleted THEN "deleted"
    ELSE IF table[lock_id].score = Released THEN "released"
    ELSE "-"

\* acquire(timeout, lock_id, owner, body): entry, up to the first loop test.
\* The deadline of a bounded acquire lies within the clock's range.
AcquireStart(c, timeout, lock_id, owner, body) ==
    /\ pc[c] = "idle"
    /\ calls < MaxCalls
    /\ calls' = calls + 1
    /\ now + timeout <= MaxTime
    /\ pc' = [pc EXCEPT ![c] = "loop"]
    /\ call' = Called(c, [NoCall EXCEPT
                  !.op = "acquire", !.lock_id = lock_id,
                  !.owner = IF owner = NONE THEN DefaultOwner(c) ELSE owner,
                  !.body = body, !.timeout = timeout,
                  !.start = IF timeout = 0 THEN 0 ELSE now,
                  !.at = RowAt(lock_id),
                  !.quiet = \A d \in Clients \ {c} : pc[d] = "idle"])
    /\ gen' = [gen EXCEPT ![c] = NoGen]
    /\ cold' = [cold EXCEPT ![c] = NoCold]
    /\ UNCHANGED <<now, table, nextVersion, accepts>>

\* "while timeout == 0 or start + timeout > datetime.now().timestamp()"
LoopTestDeadlineOnly(timeout, start, t) == start + timeout > t
LoopTest(timeout, start, t) == timeout = 0 \/ start + timeout > t

\* The loop test of acquire fails: "return None".
AcquireLoop(c) ==
    /\ pc[c] = "loop"
    /\ ~LoopTest(call[c].timeout, call[c].start, now)
    /\ pc' = [pc EXCEPT ![c] = "idle"]
    /\ call' = [call EXCEPT ![c].res = NoHandle, ![c].start = 0]
    /\ UNCHANGED <<now, table, nextVersion, gen, cold, accepts, calls>>

\* Control reaches next(generator): from the loop test of acquire when it
\* passes, or inside the generator, which is going round its "while True".
AtNext(c) ==
    \/ pc[c] = "loop" /\ LoopTest(call[c].timeout, call[c].start, now)
    \/ pc[c] = "gen"

\* The generator, resumed after a yield, issues a new _get_stale() when the
\* refresh interval has passed or xs is exhausted; so does a generator that has
\* not yielded yet.  (it is kept only while elements of xs are left.)
MustRescan(g, t) == ~g.live \/ g.rem = {} \/ t > g.it + Refresh

\* next(generator) that yields the next element of xs.
GenYield(c) ==
    /\ AtNext(c)
    /\ ~MustRescan(gen[c], now)
    /\ \E x \in gen[c].rem :
          /\ gen' = [gen EXCEPT ![c].rem = @ \ {x},
                                ![c].it = IF gen[c].rem = {x} THEN 0 ELSE @]
          /\ cold' = [cold EXCEPT ![c] = [NoCold EXCEPT !.cand = x]]
    /\ pc' = [pc EXCEPT ![c] = "try"]
    /\ UNCHANGED <<now, table, nextVersion, call, accepts, calls>>

\* next(generator) that calls _get_stale(); the shuffled result is consumed
\* in any order.  An empty result sends the generator round its "while True"
\* again, inside the same next() and without a loop test of acquire.
GenScan(c) ==
    /\ AtNext(c)
    /\ MustRescan(gen[c], now)
    /\ LET xs == GetStale(table, now, TRUE, TRUE, call[c].lock_id)
       IN IF xs = {}
          THEN /\ gen' = [gen EXCEPT ![c] =
                              [NoGen EXCEPT !.round = 1 - gen[c].round]]
               /\ pc' = [pc EXCEPT ![c] = "gen"]
               /\ UNCHANGED cold
          ELSE \E x \in xs :
                 /\ gen' = [gen EXCEPT ![c] =
                              [rem |-> xs \ {x},
                               it |-> IF xs = {x} THEN 0 ELSE now,
                               live |-> TRUE, round |-> 0]]
                 /\ cold' = [cold EXCEPT ![c] = [NoCold EXCEPT !.cand = x]]
                 /\ pc' = [pc EXCEPT ![c] = "try"]
    /\ UNCHANGED <<now, table, nextVersion, call, accepts, calls>>

\* _instant_acquire_one(lock_id, owner, body) called on its own, without etag
\* and without score: one attempt on the key the caller names.
InstantAcquireOne(c, lock_id, owner, body) ==
    /\ pc[c] = "idle"
    /\ calls < MaxCalls
    /\ calls' = calls + 1
    /\ pc' = [pc EXCEPT ![c] = "try"]
    /\ call' = Called(c, [NoCall EXCEPT
                  !.op = "attempt", !.lock_id = lock_id, !.owner = owner,
                  !.body = body,
                  !.quiet = \A d \in Clients \ {c} : pc[d] = "idle"])
    /\ gen' = [gen EXCEPT ![c] = NoGen]
    /\ cold' = [cold EXCEPT ![c] = [NoCold EXCEPT !.cand = lock_id]]
    /\ UNCHANGED <<now, table, nextVersion, accepts>>

\* Where "return None" of _instant_acquire_one leads: back to the loop test
\* of acquire, or to the caller of a single attempt.
AfterNone(c) == IF call[c].op = "acquire" THEN "loop" ELSE "idle"

\* _instant_acquire_one without etag, up to the conditional write: score = now,
\* get_row, the absence test and the lease test.
ColdRead(c) ==
    /\ pc[c] = "try"
    /\ LET k == cold[c].cand
           row == table[k]
       IN IF ~Present(row) \/ LeaseLive(row.score, now)
          THEN /\ pc' = [pc EXCEPT ![c] = AfterNone(c)]
               /\ cold' = [cold EXCEPT ![c] = NoCold]
          ELSE /\ pc' = [pc EXCEPT ![c] = "put"]
               /\ cold' = [cold EXCEPT ![c] =
                             [cand |-> k, etag |-> row.version, score |-> now,
                              body |-> row.body]]
    /\ UNCHANGED <<now, table, nextVersion, call, gen, accepts, calls>>

\* _instant_acquire_one without etag: the conditional write and the return.
\* The returned tuple carries the body read from the row.
ColdWrite(c) ==
    /\ pc[c] = "put"
    /\ LET w == InstantAcquireWrite(cold[c].cand, cold[c].etag, cold[c].score,
                                    call[c].owner, call[c].body, cold[c].body)
       IN /\ table' = w.tbl
          /\ nextVersion' = IF w.ok THEN nextVersion + 1 ELSE nextVersion
          /\ accepts' = CountAccept(cold[c].etag, w.ok)
          /\ call' = [call EXCEPT ![c].etag = cold[c].etag, ![c].res = w.res,
                                  ![c].start = IF w.ok THEN 0 ELSE @]
          /\ pc' = [pc EXCEPT ![c] = IF w.ok THEN "idle" ELSE AfterNone(c)]
    /\ cold' = [cold EXCEPT ![c] = NoCold]
    /\ UNCHANGED <<now, gen, calls>>

\* ---------------------------------------------------------- store faults

PublicOps == {"create", "update", "release", "delete"}

\* The handles a caller can pass: the tuple some client's last call returned.
Locks == {<<call[d].res.key, call[d].res.version>> :
            d \in {e \in Clients : call[e].res.version > 0}}

\* The update_row of create, update, release or delete fails: the request does
\* not reach the table and the call ends with the exception.
FaultCall(c, op) ==
    /\ pc[c] = "idle"
    /\ calls < MaxCalls
    /\ calls' = calls + 1
    /\ op = "create" \/ Locks # {}
    /\ call' = Called(c, [NoCall EXCEPT !.op = op, !.res = Uncaught(Raised)])
    /\ UNCHANGED <<now, table, nextVersion, pc, gen, cold, accepts>>

\* The query, get_row or update_row of an acquire in progress fails: the
\* exception leaves the generator, _instant_acquire_one and acquire.
FaultStep(c) ==
    /\ AtNext(c) \/ pc[c] \in {"try", "put"}
    /\ pc' = [pc EXCEPT ![c] = "idle"]
    /\ call' = [call EXCEPT ![c] =
                  [NoCall EXCEPT !.op = call[c].op, !.res = Uncaught(Raised)]]
    /\ gen' = [gen EXCEPT ![c] = NoGen]
    /\ cold' = [cold EXCEPT ![c] = NoCold]
    /\ UNCHANGED <<now, table, nextVersion, accepts, calls>>

\* ------------------------------------------------------------------ Next

CreateCall(c, k) ==
    \E aa \in BOOLEAN, b \in BodyArgs(c) : Create(c, k, NONE, b, aa)
UpdateCall(c, l) == \E b \in BodyArgs(c) : Update(c, l, NONE, b)
ReleaseCall(c, l) == \E b \in BodyArgs(c) : Release(c, l, NONE, b)
DeleteCall(c, l) == \E b \in BodyArgs(c) : Delete(c, l, NONE, b)
AcquireCall(c) ==
    \E t \in AcquireTimeouts, k \in LockIdArgs, b \in BodyArgs(c) :
        AcquireStart(c, t, k, NONE, b)
AttemptCall(c, k) == \E b \in BodyArgs(c) : InstantAcquireOne(c, k, NONE, b)

\* The steps of a call in progress.
Step(c) ==
    AcquireLoop(c) \/ GenYield(c) \/ GenScan(c) \/ ColdRead(c) \/ ColdWrite(c)

Next ==
    \/ Tick
    \/ \E c \in Clients, k \in Keys : CreateCall(c, k)
    \/ \E c \in Clients, l \in Locks : UpdateCall(c, l)
    \/ \E c \in Clients, l \in Locks : ReleaseCall(c, l)
    \/ \E c \in Clients, l \in Locks : DeleteCall(c, l)
    \/ \E c \in Clients : AcquireCall(c)
    \/ \E c \in Clients, k \in Keys : AttemptCall(c, k)
    \/ \E c \in Clients : AcquireLoop(c)
    \/ \E c \in Clients : GenYield(c)
    \/ \E c \in Clients : GenScan(c)
    \/ \E c \in Clients : ColdRead(c)
    \/ \E c \in Clients : ColdWrite(c)
    \/ \E c \in Clients, op \in PublicOps : FaultCall(c, op)
    \/ \E c \in Clients : FaultStep(c)

Spec == Init /\ [][Next]_vars

\* A call in progress keeps running and the clock keeps ticking; nothing
\* obliges a client to make another call.
FairSpec ==
    /\ Spec
    /\ WF_vars(Tick)
    /\ \A c \in Clients : WF_vars(Step(c))

\* ---------------------------------------------------------------- claims

CasOps == {"acquire", "update", "release", "delete"}
Held(row) == Present(row) /\ row.score > Released

\* C1: for every version token, at most one conditional update that carries it
\* is accepted; of two clients whose conditional updates carried the same
\* token, at most one got a handle, the other got none.
C1_MutualExclusion ==
    /\ \A v \in 1..MaxCalls : accepts[v] <= 1
    /\ \A c, d \in Clients :
          (/\ c # d
           /\ call[c].op \in CasOps /\ call[d].op \in CasOps
           /\ call[c].etag # 0 /\ call[c].etag = call[d].etag)
          => (call[c].res = NoHandle \/ call[d].res = NoHandle)

\* Two clients raced on one token: one write accepted, the other rejected.
C1_Witness ==
    \E c, d \in Clients :
        /\ c # d
        /\ call[c].op \in CasOps /\ call[d].op \in CasOps
        /\ call[c].etag # 0 /\ call[c].etag = call[d].etag
        /\ accepts[call[c].etag] = 1
        /\ call[c].res # NoHandle /\ call[d].res = NoHandle

\* The keys the scan of client c has just returned.
Scanned(c) == IF pc[c] = "try" THEN {cold[c].cand} \cup gen[c].rem ELSE {}

\* No acquire takes over a held row before its lease has run out.
LeaseSafety ==
    [][\A c \in Clients :
         (/\ ColdWrite(c)
          /\ call'[c].res # NoHandle
          /\ Held(table[cold[c].cand]))
         => now >= table[cold[c].cand].score + Timeout]_vars

\* The cold path goes on to its write for a held row exactly when
\* now >= ts + timeout.
ColdPathExpiry ==
    [][\A c \in Clients :
         (ColdRead(c) /\ Held(table[cold[c].cand]))
         => (pc'[c] = "put" <=> now >= table[cold[c].cand].score + Timeout)]_vars

\* A scan returns a held row that its key clause admits exactly when
\* now > ts + timeout.
ScanExpiryStrict ==
    [][\A c \in Clients : GenScan(c) =>
         \A k \in Keys :
            (Held(table[k]) /\ KeyClause(call[c].lock_id, k))
            => (k \in Scanned(c)' <=> now > table[k].score + Timeout)]_vars

\* A scan returns a held row that its key clause admits exactly when
\* now >= ts + timeout.
ScanExpiryInclusive ==
    [][\A c \in Clients : GenScan(c) =>
         \A k \in Keys :
            (Held(table[k]) /\ KeyClause(call[c].lock_id, k))
            => (k \in Scanned(c)' <=> now >= table[k].score + Timeout)]_vars

\* C2 (as amended): a row with score held(ts) is not acquired by any acquire
\* while now < ts + timeout, whatever scan the key came from; the cold path
\* accepts it exactly when now >= ts + timeout, and a scan returns it exactly
\* when now > ts + timeout.
C2_LeaseExpiry == LeaseSafety /\ ColdPathExpiry /\ ScanExpiryStrict

\* C2 (as claimed): the same, with the row returned by the scanner and
\* accepted by the cold path exactly when now >= ts + timeout.
C2_AsClaimed == LeaseSafety /\ ColdPathExpiry /\ ScanExpiryInclusive

\* An acquire is about to write a held row at the very tick its lease ran out.
C2_Witness ==
    \E c \in Clients :
        /\ pc[c] = "put"
        /\ Held(table[cold[c].cand])
        /\ table[cold[c].cand].version = cold[c].etag
        /\ cold[c].score = table[cold[c].cand].score + Timeout

\* C3: an acquire(lock_id = k) that starts when row k is deleted (score -1)
\* returns none.
C3_DeletedNotAcquired ==
    \A c \in Clients :
        (call[c].op = "acquire" /\ pc[c] = "idle" /\ call[c].at = "deleted")
        => call[c].res = NoHandle

\* C4: once the score of a row is -1 it stays -1, whatever call is made.
C4_DeletedForever ==
    [][\A k \in Keys :
         (Present(table[k]) /\ table[k].score = Deleted)
         => table'[k].score = Deleted]_vars

\* C5: an acquire called with a lock_id tries only that key, and every handle
\* it returns has that key.
C5_ExactKey ==
    \A c \in Clients :
        (call[c].op = "acquire" /\ call[c].lock_id # NONE)
        => /\ pc[c] \in {"try", "put"} => cold[c].cand = call[c].lock_id
           /\ call[c].res # NoHandle => call[c].res.key = call[c].lock_id

\* A row the scanner is meant to offer: unattended, or its lease has run out.
Candidate(k) ==
    Present(table[k]) /\ ScoreInRange(table[k].score, 0, now - Timeout)

\* C6: an unbounded acquire without lock_id, running while the table holds a
\* candidate row and no other client makes a call, eventually returns a handle
\* (unless a store fault ends it).
C6_UnrestrictedAcquires ==
    \A c \in Clients :
        (/\ pc[c] # "idle"
         /\ call[c].op = "acquire" /\ call[c].lock_id = NONE
         /\ call[c].timeout = 0
         /\ call[c].quiet
         /\ \E k \in Keys : Candidate(k))
        ~> \/ pc[c] = "idle" /\ call[c].res.version > 0
           \/ call[c].res = Raised
           \/ ~call[c].quiet

\* C7: an acquire with timeout > 0 terminates.
C7_BoundedAcquireReturns ==
    \A c \in Clients :
        (pc[c] # "idle" /\ call[c].timeout > 0) ~> (pc[c] = "idle")

\* C8: an unbounded acquire(lock_id = k) that starts when row k is released
\* (score 1) and during which no other client makes a call returns a handle
\* for k.
C8_ReleasedAcquired ==
    \A c \in Clients :
        (/\ call[c].op = "acquire" /\ pc[c] = "idle"
         /\ call[c].at = "released"
         /\ call[c].timeout = 0
         /\ call[c].quiet)
        => (call[c].res # NoHandle /\ call[c].res.key = call[c].lock_id)

\* C9: update, release or delete called with a handle whose version is not the
\* row's current version returns none and leaves every row as it is.
C9_StaleHandle ==
    [][\A c \in Clients, l \in Locks :
         (/\ UpdateCall(c, l) \/ ReleaseCall(c, l) \/ DeleteCall(c, l)
          /\ table[l[1]].version # l[2])
         => (table' = table /\ call'[c].res = NoHandle)]_vars

\* A call with a handle that another writer's success had made stale.
C9_Witness ==
    \E c \in Clients :
        /\ call[c].op \in {"update", "release", "delete"}
        /\ call[c].res = NoHandle
        /\ accepts[call[c].etag] = 1
        /\ Present(table[call[c].lock_id])
        /\ table[call[c].lock_id].version # call[c].etag

\* C10: a create on a key whose row exists returns none and leaves every row
\* as it is; a create on a key without row returns a handle for the row it
\* creates.  So of two creates of one lock_id exactly one gets a handle.
C10_CreateOnce ==
    [][\A c \in Clients, k \in Keys :
         CreateCall(c, k) =>
            IF Present(table[k])
            THEN table' = table /\ call'[c].res = NoHandle
            ELSE /\ call'[c].res # NoHandle
                 /\ call'[c].res.key = k
                 /\ call'[c].res.version = table'[k].version
                 /\ Present(table'[k])]_vars

\* A create that lost: the row was there already.
C10_Witness ==
    \E c \in Clients :
        /\ call[c].op = "create"
        /\ call[c].res = NoHandle
        /\ Present(table[call[c].lock_id])

\* C11: an update with a current handle stamps the row with the time of the
\* update and gives it a new version, so that every client that read the row
\* before the update holds a stale token; a conditional write with a stale
\* token is rejected and changes nothing; and no acquire takes the row before
\* (update time + timeout).
C11_UpdateExtendsLease ==
    /\ [][\A c \in Clients, l \in Locks :
            (UpdateCall(c, l) /\ table[l[1]].version = l[2])
            => /\ call'[c].res # NoHandle
               /\ table'[l[1]].score = now
               /\ table'[l[1]].version # table[l[1]].version
               /\ \A d \in Clients :
                     (pc[d] = "put" /\ cold[d].cand = l[1])
                     => cold'[d].etag # table'[l[1]].version]_vars
    /\ [][\A d \in Clients :
            (ColdWrite(d) /\ cold[d].etag # table[cold[d].cand].version)
            => (table' = table /\ call'[d].res = NoHandle)]_vars
    /\ [][\A d \in Clients :
            (ColdWrite(d) /\ call'[d].res # NoHandle
             /\ table[cold[d].cand].score > Released)
            => now >= table[cold[d].cand].score + Timeout]_vars

\* An update was accepted while another client, having read the row as
\* expired, was about to write with the token the update has used up.
C11_Witness ==
    \E c, d \in Clients :
        /\ c # d
        /\ call[c].op = "update" /\ call[c].res # NoHandle
        /\ pc[d] = "put"
        /\ cold[d].cand = call[c].lock_id
        /\ cold[d].etag = call[c].etag
        /\ table[call[c].lock_id].version = call[c].res.version

\* C12: an acquire called with timeout == 0 does not return none: it ends
\* only with a handle.
C12_UnboundedNeverNone ==
    \A c \in Clients :
        (call[c].op = "acquire" /\ call[c].timeout = 0 /\ pc[c] = "idle")
        => call[c].res # NoHandle

\* An unbounded acquire is back at its loop test after an attempt that failed.
C12_Witness ==
    \E c \in Clients :
        /\ call[c].op = "acquire" /\ call[c].timeout = 0
        /\ pc[c] = "loop"
        /\ gen[c].live

\* C13: a call that a store fault ends has the raised error as its outcome:
\* not none and not a handle; the call is over and wrote nothing.
C13_FaultIsError ==
    [][\A c \in Clients :
         (FaultStep(c) \/ \E op \in PublicOps : FaultCall(c, op))
         => /\ call'[c].res # NoHandle
            /\ call'[c].res.version = 0
            /\ call'[c].res.key \notin Keys
            /\ pc'[c] = "idle"
            /\ table' = table]_vars

\* An acquire and a call of another client have both been ended by a fault.
C13_Witness ==
    \E c, d \in Clients :
        /\ c # d
        /\ call[c].op = "acquire" /\ call[c].res = Raised
        /\ call[d].op \in PublicOps /\ call[d].res = Raised

\* is_expired(score, now, timeout) of the specification
IsExpired(score, t) == score >= 0 /\ score < t - Timeout

\* C14: the cold path goes on to its conditional write exactly when
\* is_expired holds of the score it has just read.
C14_ColdTestIsExpired ==
    [][\A c \in Clients :
         (ColdRead(c) /\ Present(table[cold[c].cand]))
         => (pc'[c] = "put" <=> IsExpired(table[cold[c].cand].score, now))]_vars

Kind(score) ==
    IF score = Deleted THEN "deleted"
    ELSE IF score = Unattended THEN "unattended"
    ELSE IF score = Released THEN "released"
    ELSE "held"

SixTransitions ==
    {<<"unattended", "held">>, <<"held", "held">>, <<"held", "released">>,
     <<"held", "deleted">>, <<"unattended", "deleted">>, <<"released", "held">>}

\* C15: every accepted write to an existing row makes one of the six listed
\* transitions of its score (a deleted row written as deleted again is no
\* change of score).
C15_SixTransitions ==
    [][\A k \in Keys :
         (Present(table[k]) /\ table'[k].version # table[k].version)
         => \/ <<Kind(table[k].score), Kind(table'[k].score)>> \in SixTransitions
            \/ table[k].score = Deleted /\ table'[k].score = Deleted]_vars

\* What the scan made by this step has returned.
ScanOf(c) == IF pc'[c] = "try" THEN {cold'[c].cand} \cup gen'[c].rem ELSE {}

\* C16: every key a scan returns has, in the table as the scan reads it, a
\* score with lo <= score < hi; it is not deleted and its lease is not live.
C16_ScanRange ==
    /\ [](\A iu, ie \in BOOLEAN, m \in LockIdArgs :
            \A k \in GetStale(table, now, iu, ie, m) :
               LET lo == IF iu THEN 0 ELSE 1
                   hi == IF ie THEN now - Timeout ELSE 1
               IN /\ Present(table[k])
                  /\ lo <= table[k].score /\ table[k].score < hi
                  /\ table[k].score # Deleted
                  /\ ~(table[k].score > 0 /\ table[k].score >= now - Timeout))
    /\ [][\A c \in Clients : GenScan(c) =>
            \A k \in ScanOf(c) :
               /\ Present(table[k])
               /\ 0 <= table[k].score /\ table[k].score < now - Timeout]_vars

\* A scan has returned a key while the table also holds a row that is deleted
\* or whose lease is live.
C16_Witness ==
    \E c \in Clients :
        /\ pc[c] = "try" /\ call[c].op = "acquire"
        /\ cold[c].cand \in GetStale(table, now, TRUE, TRUE, call[c].lock_id)
        /\ \E k \in Keys :
              /\ Present(table[k])
              /\ table[k].score = Deleted \/ table[k].score >= now - Timeout
              /\ k \notin GetStale(table, now, TRUE, TRUE, call[c].lock_id)
              /\ KeyClause(call[c].lock_id, k)

\* C17: the handle of a successful cold acquire carries the caller's body if
\* the caller supplied one and the row's body otherwise, which is the body the
\* row has after the write.
C17_HandleBody ==
    [][\A c \in Clients :
         (ColdWrite(c) /\ call'[c].res.version > 0)
         => /\ call'[c].res.body =
                  IF call[c].body # NONE THEN call[c].body
                  ELSE table[cold[c].cand].body
            /\ call'[c].res.body = table'[cold[c].cand].body]_vars

C19_HandleVersion ==
    /\ [](\A k \in Keys :
            Cardinality({c \in Clients :
                           /\ call[c].res.key = k
                           /\ call[c].res.version = table[k].version}) <= 1)
    /\ [][\A c \in Clients :
            (call'[c].res.version > 0 /\ call'[c].res # call[c].res)
            => /\ call'[c].res.version = nextVersion
               /\ nextVersion' = nextVersion + 1
               /\ table'[call'[c].res.key].version = call'[c].res.version
               /\ table[call'[c].res.key].version # call'[c].res.version]_vars

\* Two clients hold handles of one row: one current, one stale.
C19_Witness ==
    \E c, d \in Clients :
        /\ c # d
        /\ call[c].res.version > 0 /\ call[d].res.version > 0
        /\ call[c].res.key = call[d].res.key
        /\ call[c].res.version = table[call[c].res.key].version
        /\ call[d].res.version # table[call[d].res.key].version

\* The row k is as a create of another client than d made it.
AsCreated(d, k) ==
    \E c \in Clients \ {d} :
        /\ call[c].op = "create"
        /\ call[c].res.key = k
        /\ call[c].res.version = table[k].version

====
